---- MODULE Spec2Model ----
(***************************************************************************)
(* Model of the ingestion / retrieval core of the question-answering       *)
(* backend: VectorStoreService (services/vector_store.py) and LLMService   *)
(* (services/llm_service.py).                                              *)
(*                                                                         *)
(* Spec     : the index service. Worker threads run ingest_document step   *)
(*            by step; the file system is the environment.                 *)
(* FairSpec : Spec with weak fairness on every thread step.                *)
(* CacheSpec: search_documents and clear_cache beside one ingesting worker.*)
(* GenSpec  : one generate_response call of the generation client under    *)
(*            its tenacity retry decorator.                                *)
(* ConfigSpec: Settings() loaded from bounded environments.                *)
(* TransportSpec: concurrent requests through the generation client's      *)
(*            session and its periodic refresh.                            *)
(* StreamSpec: the generator of a streaming response and its consumer.     *)
(* PromptSpec: RAGService._build_prompt applied to bounded inputs.         *)
(* QuerySpec: one RAGService.query call under its tenacity decorator.      *)
(* SanitySpec: one RAGService.query_with_sanity_check call.                 *)
(* BatchSpec: ingest_all_documents and ingest_all_documents_async beside a *)
(*            thread that ingests single files; BatchFairSpec adds weak    *)
(*            fairness on the steps of the batch.                          *)
(* LazySpec : a streaming query() and the consumer's first pull from the   *)
(*            generator it returned.                                       *)
(* RestartSpec: ingesting workers and restarts of the service.            *)
(* OpsSpec  : ingest, ingest_all, search, query, status and clear_cache    *)
(*            side by side.                                                *)
(* RetrieveSpec: RAGService._retrieve_context beside one ingesting worker. *)
(* ReadySpec: VectorStoreService.is_ready beside one ingesting worker.     *)
(* StatusSpec: RAGService.get_status and clear_cache beside one ingesting  *)
(*            worker.                                                      *)
(* ClearSpec: RAGService.clear_cache beside searches and status requests.  *)
(*                                                                         *)
(* A file's content is abstracted to a version number: the SHA-256 hash is *)
(* an injective function of the version, the size and the chunk count are  *)
(* functions of it.  One ingest_document call reads one version of the     *)
(* file (lines 299-323 see a single snapshot).                             *)
(***************************************************************************)
EXTENDS Integers, Sequences, FiniteSets, TLC

\* ------------------------------------------------------------------ bounds
NumThreads == 2
MaxVer == 2
MaxMtime == 2
MaxChunks == 4
\* settings.CACHE_SIZE (default 1000) scaled down so that the lru_cache evicts
CACHE_SIZE == 1
\* settings.SIMILARITY_K (default 5) scaled down
SIMILARITY_K == 2
\* settings.MAX_RETRIES
MAX_RETRIES == 3
\* lines of one streaming response
MaxLines == 7
\* max_decode_errors of _handle_streaming_response
max_decode_errors == 5
\* self.max_context_length (default 16000) scaled down
max_context_length == 150
\* self.max_prompt_length (default 32000) scaled down
max_prompt_length == 300
\* the 100 characters build_prompt takes off beyond the excess
TruncationSlack == 100
\* the messages of the chat history that are shown
HistoryWindow == 10
\* settings.MAX_QUERY_LENGTH (default 1000) scaled down
MAX_QUERY_LENGTH == 8
\* an optional number left at None
NoNumber == -99
\* self._status_cache_ttl (30 seconds) scaled down
status_cache_ttl == 2
session_refresh_interval == 1
\* settings.CACHE_TTL in seconds (3600 by default), in clock ticks here
CACHE_TTL == 2
\* seconds the clock runs on
MaxTicks == 3

None == "None"
\* a path that does not exist
Missing == [ver |-> -1, mtime |-> 0]
\* no DocumentInfo stored under a filename
NoDoc == [file_size |-> -1, file_hash |-> -1, chunk_count |-> -1, last_modified |-> -1]
\* the metadata lock is free
NoThread == 0
\* k left at its default (k=None)
NoK == 0

Threads == 1..NumThreads

\* ------------------------------------------------------------- file system
\* the file an editor changes while the service runs
Tracked == {"a.txt"}
\* every path handed to ingest_document: b.md is never edited, c.docx has a
\* supported extension without a loader, d.exe is unsupported, e.txt does not
\* exist and f.md is blank
Paths == Tracked \cup {"b.md", "c.docx", "d.exe", "e.txt", "f.md"}

Suffix(f) ==
    CASE f \in {"a.txt", "e.txt"} -> ".txt"
      [] f \in {"b.md", "f.md"} -> ".md"
      [] f = "c.docx" -> ".docx"
      [] OTHER -> ".exe"

SUPPORTED_EXTENSIONS == {".pdf", ".txt", ".md", ".docx", ".html"}
LOADERS == {".txt", ".pdf", ".md"}

\* sha256 of the content: injective in the version
HashOf(v) == v
\* the "" _calculate_file_hash returns when it cannot read the file
EmptyHash == -2
\* VectorStoreService._calculate_file_hash
calculate_file_hash(v, readable) == IF readable THEN HashOf(v) ELSE EmptyHash
\* st_size of the content: versions 1 and 2 have the same length
SizeOf(v) == (v + 1) \div 2
\* number of chunks the splitter makes of the content (version 0 is blank)
ChunkCount(v) == v

VARIABLES
    files,           \* Tracked -> [ver, mtime]: content version and st_mtime
    vectorstore,     \* the Chroma collection: sequence of chunks [source, hash, i]
    persisted,       \* length of the collection at the last persist()
    ingested_files,  \* self.ingested_files: filename -> NoDoc or DocumentInfo
    metadata_lock,   \* self._metadata_lock: NoThread or the thread holding it
    cache,           \* lru_cache of search_documents: entries, least recently used first
    call,            \* thread -> its ingest_document call: position, arguments, locals
    recent,          \* searches answered since the last ingest step / clear_cache
    cleared,         \* keys cached when clear_cache ran and not searched since
    preingest,       \* keys whose cache entry predates a completed ingest write
    last,            \* the operation that produced the current state
    gen,             \* the generate_response call of the generation client
    session,         \* the generation client's HTTP session and the requests on it
    disk,            \* settings.METADATA_FILE and backups/metadata_backup.json
    resp,            \* the generator of a streaming response and its consumer
    rag              \* the orchestrator: its query call, last prompt and status

ivars == <<files, vectorstore, persisted, ingested_files, metadata_lock, cache,
           call, recent, cleared, preingest, disk>>
\* everything but the generate_response call
nongen == <<ivars, session, resp, rag>>
vars == <<ivars, last, gen, session, resp, rag>>

\* -------------------------------------------------------------- retrieval
\* the (query, k, score_threshold) argument tuples of search_documents
SearchArgs == {<<"qa", NoK, 0>>, <<"qb", 1, 2>>}

\* the file a query is about
Topic(q) == IF q = "qa" THEN "a.txt" ELSE "b.md"

\* distance Chroma reports for a chunk: small for a chunk of the query's topic
Score(q, c) == IF c.source = Topic(q) THEN 1 ELSE 3

RECURSIVE Reverse(_)
Reverse(s) == IF s = <<>> THEN <<>> ELSE Append(Reverse(Tail(s)), Head(s))

Take(s, n) == IF Len(s) <= n THEN s ELSE SubSeq(s, 1, n)

\* vectorstore.similarity_search(query, k): the k nearest chunks, nearest first
\* (among equally near chunks the most recently added first)
SimilaritySearch(store, q, k) ==
    LET near == SelectSeq(store, LAMBDA c : c.source = Topic(q))
        far  == SelectSeq(store, LAMBDA c : c.source # Topic(q))
    IN  Take(Reverse(near) \o Reverse(far), k)

\* body of search_documents (lines 223-243) once the store is initialised
SearchBackend(store, key) ==
    LET q == key[1]
        k == IF key[2] = NoK THEN SIMILARITY_K ELSE key[2]
        thr == key[3]
        results == SimilaritySearch(store, q, k)
    IN  IF thr > 0
        THEN SelectSeq(results, LAMBDA c : Score(q, c) >= thr)
        ELSE results

CachePos(key) ==
    IF \E i \in 1..Len(cache) : cache[i].key = key
    THEN CHOOSE i \in 1..Len(cache) : cache[i].key = key
    ELSE 0

Without(s, i) == SubSeq(s, 1, i - 1) \o SubSeq(s, i + 1, Len(s))

\* a cache that, once full, keeps its old entries and drops the new one
CachePutKeepsOldest(c, e) ==
    IF Len(c) >= CACHE_SIZE THEN c ELSE Append(c, e)

\* lru_cache insertion: newest last, the least recently used entry is dropped
CachePut(c, e) ==
    LET c2 == Append(c, e)
    IN  IF Len(c2) > CACHE_SIZE THEN Tail(c2) ELSE c2

\* position of key in a sequence of entries (0: absent)
PosIn(seq, key) ==
    IF \E i \in 1..Len(seq) : seq[i].key = key
    THEN CHOOSE i \in 1..Len(seq) : seq[i].key = key
    ELSE 0

\* history of the cache claims: the searches answered since the last ingest step
\* or clear_cache, oldest first, one entry per key
Remember(seq, key, val) ==
    LET i == PosIn(seq, key)
    IN  Append(IF i > 0 THEN Without(seq, i) ELSE seq, [key |-> key, val |-> val])

\* the keys of a sequence of entries
KeysOf(seq) == {seq[i].key : i \in 1..Len(seq)}

\* search_documents(query, k, score_threshold) through its lru_cache wrapper;
\* fails: the backend call raises, which lru_cache does not store
search_documents(key, fails) ==
    LET i == CachePos(key)
        hit == i > 0
        fresh == SearchBackend(vectorstore, key)
        val == IF hit THEN cache[i].val ELSE IF fails THEN <<>> ELSE fresh
        j == PosIn(recent, key)
    IN  /\ hit => ~fails
        /\ cache' = IF hit THEN Append(Without(cache, i), cache[i])
                    ELSE IF fails THEN cache
                    ELSE CachePut(cache, [key |-> key, val |-> fresh, at |-> rag.now])
        /\ recent' = IF fails THEN recent ELSE Remember(recent, key, val)
        /\ cleared' = cleared \ {key}
        /\ preingest' = IF hit THEN preingest ELSE preingest \cap (KeysOf(cache') \ {key})
        /\ last' = [op |-> "search", key |-> key, hit |-> hit, ok |-> ~fails, val |-> val,
                    hadPrior |-> j > 0,
                    samePrior |-> j > 0 /\ ~fails /\ recent[j].val = val,
                    fewOthers |-> j > 0 /\ Len(recent) - j < CACHE_SIZE,
                    wasCleared |-> key \in cleared,
                    stale |-> key \in preingest,
                    age |-> IF hit THEN rag.now - cache[i].at ELSE 0]
        /\ UNCHANGED <<files, vectorstore, persisted, ingested_files, metadata_lock,
                       call, gen, session, disk, resp, rag>>

\* a clear_cache that logs without calling cache_clear
clear_cache_keeps ==
    /\ cache' = cache
    /\ cleared' = cleared \cup KeysOf(cache)
    /\ preingest' = preingest
    /\ recent' = <<>>
    /\ last' = [op |-> "clear_cache"]
    /\ UNCHANGED <<files, vectorstore, persisted, ingested_files, metadata_lock,
                   call, gen, session, disk, resp, rag>>

\* VectorStoreService.clear_cache
clear_cache ==
    /\ cache' = <<>>
    /\ cleared' = cleared \cup KeysOf(cache)
    /\ preingest' = {}
    /\ recent' = <<>>
    /\ last' = [op |-> "clear_cache"]
    /\ UNCHANGED <<files, vectorstore, persisted, ingested_files, metadata_lock,
                   call, gen, session, disk, resp, rag>>

\* ---------------------------------------------------------------- ingestion
FileState(f) ==
    IF f \in Tracked THEN files[f]
    ELSE IF f = "e.txt" THEN Missing
    ELSE IF f = "f.md" THEN [ver |-> 0, mtime |-> 1]
    ELSE [ver |-> 1, mtime |-> 1]

\* a change detection that compares the stored mtime with the file's size
NeedsReingestionMixedUp(f) ==
    IF ingested_files[f] = NoDoc THEN TRUE
    ELSE LET doc_info == ingested_files[f]
             st == FileState(f)
         IN  \/ doc_info.last_modified # SizeOf(st.ver)
             \/ doc_info.file_size # st.mtime
             \/ doc_info.file_hash # HashOf(st.ver)

\* VectorStoreService._needs_reingestion
NeedsReingestion(f) ==
    IF ingested_files[f] = NoDoc THEN TRUE
    ELSE LET doc_info == ingested_files[f]
             st == FileState(f)
         IN  \/ doc_info.last_modified # st.mtime
             \/ doc_info.file_size # SizeOf(st.ver)
             \/ doc_info.file_hash # HashOf(st.ver)

\* a removal that deletes the file's chunks at once
RemoveDocumentFromStoreNow(store, f) == SelectSeq(store, LAMBDA c : c.source # f)

\* VectorStoreService._remove_document_from_store: a placeholder that only logs
RemoveDocumentFromStore(store, f) == store

\* the chunks the splitter makes of version v of file f, with their metadata
\* (file_hash h)
ChunksOf(f, v, h) == [i \in 1..ChunkCount(v) |-> [source |-> f, hash |-> h, i |-> i]]

\* the DocumentInfo built at lines 335-343
DocInfo(v, m, h) == [file_size |-> SizeOf(v), file_hash |-> h,
                     chunk_count |-> ChunkCount(v), last_modified |-> m]

\* a worker thread outside ingest_document
Idle == [pc |-> "idle", f |-> None, force |-> FALSE, snap |-> Missing,
         file_hash |-> EmptyHash, touched |-> FALSE]

\* calls that may still add chunks
InFlight == Cardinality({t \in Threads : call[t].pc \in {"load", "add"}})

\* an ingest_document that forgets the record of a file it is forced to
\* re-ingest
IngestCallForgetsRecord(t, f, force) ==
    LET st == FileState(f)
        rec == ingested_files[f]
        same == /\ st # Missing
                /\ rec # NoDoc
                /\ rec.file_hash = HashOf(st.ver)
                /\ rec.file_size = SizeOf(st.ver)
                /\ rec.last_modified = st.mtime
        r == IF Suffix(f) \notin SUPPORTED_EXTENSIONS THEN "False"
             ELSE IF st = Missing THEN "False"
             ELSE IF ~force /\ ~NeedsReingestion(f) THEN "True"
             ELSE None
    IN  /\ call[t].pc = "idle"
        /\ Len(vectorstore) + MaxVer * (InFlight + 1) <= MaxChunks
        /\ call' = [call EXCEPT ![t] =
                      IF r = None THEN [Idle EXCEPT !.pc = "load", !.f = f, !.force = force]
                      ELSE Idle]
        /\ recent' = <<>>
        /\ last' = [op |-> "ingest_call", t |-> t, ret |-> r, force |-> force,
                    same |-> same, chunks |-> Len(vectorstore), docs |-> ingested_files]
        /\ ingested_files' = IF force /\ r = None
                             THEN [ingested_files EXCEPT ![f] = NoDoc]
                             ELSE ingested_files
        /\ UNCHANGED <<files, vectorstore, persisted, metadata_lock,
                       cache, cleared, preingest, gen, session, disk, resp>>

\* ingest_document, lines 266-283: extension, existence and change detection
IngestCall(t, f, force) ==
    LET st == FileState(f)
        rec == ingested_files[f]
        same == /\ st # Missing
                /\ rec # NoDoc
                /\ rec.file_hash = HashOf(st.ver)
                /\ rec.file_size = SizeOf(st.ver)
                /\ rec.last_modified = st.mtime
        r == IF Suffix(f) \notin SUPPORTED_EXTENSIONS THEN "False"
             ELSE IF st = Missing THEN "False"
             ELSE IF ~force /\ ~NeedsReingestion(f) THEN "True"
             ELSE None
    IN  /\ call[t].pc = "idle"
        /\ Len(vectorstore) + MaxVer * (InFlight + 1) <= MaxChunks
        /\ call' = [call EXCEPT ![t] =
                      IF r = None THEN [Idle EXCEPT !.pc = "load", !.f = f, !.force = force]
                      ELSE Idle]
        /\ recent' = <<>>
        /\ last' = [op |-> "ingest_call", t |-> t, ret |-> r, force |-> force,
                    same |-> same, chunks |-> Len(vectorstore), docs |-> ingested_files]
        /\ UNCHANGED <<files, vectorstore, persisted, ingested_files, metadata_lock,
                       cache, cleared, preingest, gen, session, disk, resp>>

\* ingest_document, lines 289-327: removal on forced re-ingest, loader, file
\* hash, splitter
IngestLoad(t, outcome) ==
    LET f == call[t].f
        st == FileState(f)
        store == IF ingested_files[f] # NoDoc /\ call[t].force
                 THEN RemoveDocumentFromStore(vectorstore, f)
                 ELSE vectorstore
        r == IF Suffix(f) \notin LOADERS THEN "False"
             ELSE IF outcome = "raise" THEN "DocumentProcessingError"
             ELSE IF outcome = "nodocs" THEN "False"
             ELSE IF ChunkCount(st.ver) = 0 THEN "False"
             ELSE None
    IN  /\ call[t].pc = "load"
        /\ Suffix(f) \notin LOADERS => outcome = "docs"
        /\ vectorstore' = store
        /\ call' = [call EXCEPT ![t] =
                      IF r = None
                      THEN [@ EXCEPT !.pc = "add", !.snap = st,
                                     !.file_hash = calculate_file_hash(st.ver,
                                                                       outcome # "nohash"),
                                     !.touched = store # vectorstore]
                      ELSE Idle]
        /\ recent' = <<>>
        /\ last' = [op |-> "ingest_load", ret |-> r, outcome |-> outcome,
                    touched |-> call[t].touched \/ store # vectorstore]
        /\ UNCHANGED <<files, persisted, ingested_files, metadata_lock, cache,
                       cleared, preingest, gen, session, disk, resp>>

\* ingest_document, line 331: vectorstore.add_documents(chunks)
IngestAdd(t, ok) ==
    /\ call[t].pc = "add"
    /\ IF ok
       THEN /\ vectorstore' = vectorstore \o ChunksOf(call[t].f, call[t].snap.ver, call[t].file_hash)
            /\ call' = [call EXCEPT ![t] = [@ EXCEPT !.pc = "persist", !.touched = TRUE]]
       ELSE /\ vectorstore' = vectorstore
            /\ call' = [call EXCEPT ![t] = Idle]
    /\ recent' = <<>>
    /\ last' = [op |-> "ingest_add", f |-> call[t].f,
                ret |-> IF ok THEN None ELSE "DocumentProcessingError",
                touched |-> call[t].touched \/ ok]
    /\ UNCHANGED <<files, persisted, ingested_files, metadata_lock, cache,
                   cleared, preingest, gen, session, disk, resp>>

\* ingest_document, line 332: vectorstore.persist()
IngestPersist(t, ok) ==
    /\ call[t].pc = "persist"
    /\ IF ok
       THEN /\ persisted' = Len(vectorstore)
            /\ call' = [call EXCEPT ![t] = [@ EXCEPT !.pc = "lock"]]
       ELSE /\ persisted' = persisted
            /\ call' = [call EXCEPT ![t] = Idle]
    /\ recent' = <<>>
    /\ last' = [op |-> "ingest_persist", f |-> call[t].f,
                ret |-> IF ok THEN None ELSE "DocumentProcessingError",
                touched |-> call[t].touched]
    /\ UNCHANGED <<files, vectorstore, ingested_files, metadata_lock, cache,
                   cleared, preingest, gen, session, disk, resp>>

\* an ingest that stores the record before the chunks are written
IngestCommitBeforeWrite(t) ==
    /\ call[t].pc = "add"
    /\ metadata_lock = NoThread
    /\ metadata_lock' = t
    /\ ingested_files' = [ingested_files EXCEPT
                            ![call[t].f] = DocInfo(call[t].snap.ver, call[t].snap.mtime,
                                               call[t].file_hash)]
    /\ call' = [call EXCEPT ![t] = [@ EXCEPT !.pc = "save_metadata", !.touched = TRUE]]
    /\ recent' = <<>>
    /\ last' = [op |-> "ingest_commit", ret |-> None]
    /\ preingest' = KeysOf(cache)
    /\ UNCHANGED <<files, vectorstore, persisted, cache, cleared, gen, session, disk, resp>>

\* ingest_document, lines 335-346: take the metadata lock and store the record.
\* The thread then calls _save_metadata (line 347), which starts by taking the
\* same non-reentrant threading.Lock (line 168): a thread at "save_metadata"
\* has no further step.
IngestCommit(t) ==
    /\ call[t].pc = "lock"
    /\ metadata_lock = NoThread
    /\ metadata_lock' = t
    /\ ingested_files' = [ingested_files EXCEPT
                            ![call[t].f] = DocInfo(call[t].snap.ver, call[t].snap.mtime,
                                               call[t].file_hash)]
    /\ call' = [call EXCEPT ![t] = [@ EXCEPT !.pc = "save_metadata", !.touched = TRUE]]
    /\ recent' = <<>>
    /\ last' = [op |-> "ingest_commit", ret |-> None]
    /\ preingest' = KeysOf(cache)
    /\ UNCHANGED <<files, vectorstore, persisted, cache, cleared, gen, session, disk, resp>>

\* ------------------------------------------------------------- environment
\* an editor rewrites the file: new content, new mtime
WriteFile(f) ==
    /\ files[f].ver < MaxVer
    /\ files[f].mtime < MaxMtime
    /\ files' = [files EXCEPT ![f] = [ver |-> @.ver + 1, mtime |-> @.mtime + 1]]
    /\ last' = [op |-> "write_file"]
    /\ UNCHANGED <<vectorstore, persisted, ingested_files, metadata_lock, cache,
                   call, recent, cleared, preingest, gen, session, disk, resp, rag>>

\* touch: the mtime alone changes
TouchFile(f) ==
    /\ files[f].mtime < MaxMtime
    /\ files' = [files EXCEPT ![f] = [@ EXCEPT !.mtime = @ + 1]]
    /\ last' = [op |-> "touch_file"]
    /\ UNCHANGED <<vectorstore, persisted, ingested_files, metadata_lock, cache,
                   call, recent, cleared, preingest, gen, session, disk, resp, rag>>

\* ------------------------------------------------------------ specification
GenIdle == [pc |-> "idle", prompt |-> None, stream |-> FALSE, attempt |-> 0,
            probes |-> 0, posts |-> <<>>, out |-> None]

\* no session object
NoSession == 0

\* the generation client after construction (lines 28-35): cur is the object
\* self.session names, closed the session objects close() was called on,
\* last_refresh is self._last_session_refresh, req the request each thread
\* makes through the client (using: the session object it sends on)
FirstSession == [cur |-> 1, closed |-> {}, last_refresh |-> status_cache_ttl,
                 req |-> [t \in Threads |-> [pc |-> "idle", kind |-> None,
                                             using |-> NoSession]]]

\* no record under any filename
NoRecords == [f \in Paths |-> NoDoc]

\* a path of the data directory nothing was written to
Absent == [state |-> "absent", docs |-> NoRecords]

\* the data directory of a first start: neither the metadata file nor its
\* backup exists
NoDisk == [file |-> Absent, backup |-> Absent]

\* no streaming response exists
NoStream == [pc |-> "none", via |-> None, open |-> FALSE, read |-> 0, yielded |-> <<>>,
             frags |-> {}, decode_errors |-> 0, done |-> 0, line |-> None]

\* QueryConfig(): the defaults of the dataclass
DefaultConfig == [max_results |-> 5, temperature |-> NoNumber, max_tokens |-> NoNumber,
                  stream |-> FALSE]

\* no query() call is running
QueryIdle == [pc |-> "idle", query |-> <<>>, config |-> DefaultConfig, attempt |-> 0,
              retrievals |-> 0, generations |-> 0, out |-> None]

\* no query_with_sanity_check call is running; initial is what its query()
\* call gave, verified whether the second generation succeeded
SanityIdle == [pc |-> "idle", initial |-> None, verified |-> FALSE, out |-> None]

\* no batch ingestion is running. todo: the listed files not yet handed to
\* ingest_document; current: the file each thread ingests for the batch;
\* count: the calls that returned True; unchanged, ingested, raised: the
\* files skipped as unchanged, whose chunks and record were stored, whose
\* call raised
BatchIdle == [pc |-> "idle", mode |-> None, todo |-> {},
              current |-> [t \in Threads |-> None], count |-> 0,
              unchanged |-> {}, ingested |-> {}, raised |-> {}, out |-> NoNumber]

\* self._status_cache = {}
NoStatus == [status |-> "none", vector_store_ready |-> FALSE, llm_available |-> FALSE,
             timestamp |-> 0]

\* the orchestrator after construction; now is the clock time.time() reads,
\* computed_at the time of the last computed status not followed by a
\* clear_cache, status the last get_status call (its time, the computed_at it
\* found, the availability probe's answer, whether it computed, what the index service's is_ready said then, what it returned)
RagIdle == [pc |-> "idle",
            args |-> [docs |-> <<>>, sys |-> <<>>, uc |-> <<>>, hist |-> <<>>, q |-> <<>>],
            prompt |-> <<>>,
            call |-> QueryIdle,
            sanity |-> SanityIdle,
            batch |-> BatchIdle,
            now |-> status_cache_ttl,
            status_cache |-> NoStatus,
            last_status_check |-> 0,
            computed_at |-> NoNumber,
            status |-> [called |-> FALSE, at |-> 0, prior |-> NoNumber, probe |-> None,
                        fresh |-> FALSE, index_ready |-> FALSE, info |-> NoStatus]]

\* a fresh installation: no metadata file, an empty collection
Init ==
    /\ files = [f \in Tracked |-> [ver |-> 1, mtime |-> 1]]
    /\ vectorstore = <<>>
    /\ persisted = 0
    /\ ingested_files = [f \in Paths |-> NoDoc]
    /\ metadata_lock = NoThread
    /\ cache = <<>>
    /\ call = [t \in Threads |-> Idle]
    /\ recent = <<>>
    /\ cleared = {}
    /\ preingest = {}
    /\ last = [op |-> "init"]
    /\ gen = GenIdle
    /\ session = FirstSession
    /\ disk = NoDisk
    /\ resp = NoStream
    /\ rag = RagIdle

\* a step of an ingest_document call a worker thread makes on its own
ThreadStep(t) ==
    \/ \E f \in Paths, force \in BOOLEAN : IngestCall(t, f, force) /\ UNCHANGED rag
    \/ \E outcome \in {"raise", "nodocs", "docs"} : IngestLoad(t, outcome) /\ UNCHANGED rag
    \/ \E ok \in BOOLEAN : IngestAdd(t, ok) /\ UNCHANGED rag
    \/ \E ok \in BOOLEAN : IngestPersist(t, ok) /\ UNCHANGED rag
    \/ IngestCommit(t) /\ UNCHANGED rag

\* the index service under concurrent ingestion
Next ==
    \/ \E t \in Threads : ThreadStep(t)
    \/ \E f \in Tracked : WriteFile(f)
    \/ \E f \in Tracked : TouchFile(f)

Spec == Init /\ [][Next]_vars

\* the scheduler runs every worker thread that can take a step
FairSpec == Spec /\ \A t \in Threads : WF_vars(ThreadStep(t))

\* retrieval and its cache beside one ingesting worker
CacheNext ==
    \/ ThreadStep(1)
    \/ \E key \in SearchArgs, fails \in BOOLEAN : search_documents(key, fails)
    \/ clear_cache
    \/ \E f \in Tracked : WriteFile(f)
    \/ \E f \in Tracked : TouchFile(f)

CacheSpec == Init /\ [][CacheNext]_vars

\* ------------------------------------------------------- generation client
\* what the caller passes: a valid call, or one _validate_parameters rejects
Prompts == {"ok", "empty", "too_long", "bad_temperature"}

\* outcome of the GET /api/tags probe inside is_available
ProbeOutcomes == {"listed", "not_listed", "http_error", "timeout", "conn_error"}

\* outcome of session.post(/api/generate) followed by raise_for_status and,
\* when buffered, response.json(). The session's urllib3 Retry does not resend
\* a POST on a status of its status_forcelist: one outcome is one request.
PostOutcomes == {"200", "bad_json", "400", "404", "429", "500", "503", "timeout", "conn_reset"}

\* an is_available satisfied by any 200 answer
IsAvailableAnyAnswer(o) == o \in {"listed", "not_listed"}

\* LLMService.is_available: true only for a 200 answer that lists the model
IsAvailable(o) == o = "listed"

\* the LLMException generate_response raises for a failed POST (lines 206-230)
PostError(r) ==
    CASE r = "timeout" -> "Timeout"
      [] r = "conn_reset" -> "ConnectionFailed"
      [] r = "404" -> "ModelNotFound"
      [] r = "429" -> "RateLimited"
      [] r = "bad_json" -> "InvalidResponse"
      [] OTHER -> "HTTPError"

\* a retry decorator without a stop condition
TenacityNoStop(g, exc) == [g EXCEPT !.pc = "validate", !.attempt = @ + 1]

\* the tenacity decorator of generate_response (lines 134-137): no retry
\* predicate is given, so every exception leads to another attempt until
\* stop_after_attempt(MAX_RETRIES), after which tenacity raises RetryError
Tenacity(g, exc) ==
    IF g.attempt < MAX_RETRIES
    THEN [g EXCEPT !.pc = "validate", !.attempt = @ + 1]
    ELSE [g EXCEPT !.pc = "done", !.out = "RetryError"]

\* a caller invokes generate_response(prompt, stream, ...)
GenCall(prompt, stream) ==
    /\ gen.pc = "idle"
    /\ gen' = [GenIdle EXCEPT !.pc = "validate", !.prompt = prompt,
                              !.stream = stream, !.attempt = 1]
    /\ last' = [op |-> "generate"]
    /\ UNCHANGED nongen

\* generate_response, line 151: _validate_parameters raises ValueError
GenValidate ==
    /\ gen.pc = "validate"
    /\ gen' = IF gen.prompt = "ok" THEN [gen EXCEPT !.pc = "probe"]
              ELSE Tenacity(gen, "ValueError")
    /\ last' = [op |-> "validate"]
    /\ UNCHANGED nongen

\* generate_response, lines 153-155: the availability probe
GenProbe(o) ==
    /\ gen.pc = "probe"
    /\ gen' = IF IsAvailable(o)
              THEN [gen EXCEPT !.pc = "post", !.probes = @ + 1]
              ELSE Tenacity([gen EXCEPT !.probes = @ + 1], "Unavailable")
    /\ last' = [op |-> "probe", answer |-> o, available |-> IsAvailable(o),
                attempt |-> gen.attempt]
    /\ UNCHANGED nongen

\* generate_response, lines 187-230: the generate request and its answer
GenPost(r) ==
    /\ gen.pc = "post"
    /\ r = "bad_json" => ~gen.stream
    /\ LET g == [gen EXCEPT !.posts = Append(@, r)]
       IN  gen' = IF r = "200"
                  THEN [g EXCEPT !.pc = "done",
                                 !.out = IF gen.stream THEN "stream" ELSE "text"]
                  ELSE Tenacity(g, PostError(r))
    /\ last' = [op |-> "post", attempt |-> gen.attempt, probed |-> last]
    /\ UNCHANGED nongen

\* the caller has its answer or its error; the client is free for the next call
GenReturn ==
    /\ gen.pc = "done"
    /\ gen' = GenIdle
    /\ last' = [op |-> "return"]
    /\ UNCHANGED nongen

GenNext ==
    \/ \E prompt \in Prompts, stream \in BOOLEAN : GenCall(prompt, stream)
    \/ GenValidate
    \/ \E o \in ProbeOutcomes : GenProbe(o)
    \/ \E r \in PostOutcomes : GenPost(r)
    \/ GenReturn

GenSpec == Init /\ [][GenNext]_vars

\* ------------------------------------------------------ streaming response
\* what response.iter_lines hands to _handle_streaming_response next:
\*   frag  : a JSON line with a "response" fragment, done absent or false
\*   last  : a JSON line with a "response" fragment and done=true
\*   done  : a JSON line with done=true and no fragment
\*   meta  : a JSON line with neither
\*   bad   : a line json.loads rejects
\*   blank : an empty keep-alive line
Lines == {"frag", "last", "done", "meta", "bad", "blank"}

\* "response" in data (line 243)
HasFragment(line) == line \in {"frag", "last"}

\* a stream that never recognises the completion signal
LineDoneNever(line) == FALSE

\* data.get("done", False) (line 246)
LineDone(line) == line \in {"last", "done"}

\* an abort test that lets one failure too many pass
TooManyDecodeErrorsLate(n) == n > max_decode_errors

\* decode_errors >= max_decode_errors (line 253)
TooManyDecodeErrors(n) == n >= max_decode_errors

\* the generator has terminated: StopIteration, an exception, or close()
Terminated == {"ended", "failed", "closed"}

\* generate_response(stream=True) returns (lines 199-200): the response is
\* open and the generator returned by _handle_streaming_response has not run
\* any of its body. Through the orchestrator (_create_streaming_response) the
\* consumer holds the wrapper generator, and generate_response is only called
\* by the wrapper's first next().
StreamOpen(via) ==
    /\ resp.pc = "none"
    /\ resp' = [NoStream EXCEPT !.pc = "created", !.via = via, !.open = (via = "direct")]
    /\ UNCHANGED <<ivars, last, gen, session, rag>>

\* the consumer calls next(): the generator runs on from where it stands.
\* From the yield of line 244 it first tests the done flag of the line it
\* has just yielded (line 246) and on done leaves the loop and the with block.
\* The wrapper's first next() calls generate_response, which may raise.
ConsumerNext(ok) ==
    /\ resp.pc \in {"created", "yielded"}
    /\ ~ok => (resp.pc = "created" /\ resp.via = "wrapper")
    /\ resp' = IF ~ok THEN [resp EXCEPT !.pc = "failed"]
               ELSE IF resp.pc = "yielded" /\ LineDone(resp.line)
               THEN [resp EXCEPT !.pc = "ended", !.open = FALSE]
               ELSE [resp EXCEPT !.pc = "running", !.open = TRUE]
    /\ UNCHANGED <<ivars, last, gen, session, rag>>

\* one turn of the loop of lines 239-256 on the next line of the backend
ReadLine(line) ==
    /\ resp.pc = "running"
    /\ resp.read < MaxLines
    /\ LET n == resp.read + 1
           r == [resp EXCEPT !.read = n, !.line = line,
                             !.done = IF line \in {"last", "done"} THEN n ELSE @]
       IN  resp' =
             CASE line = "blank" -> r
               [] line = "bad" ->
                    IF TooManyDecodeErrors(resp.decode_errors + 1)
                    THEN [r EXCEPT !.decode_errors = @ + 1, !.pc = "failed",
                                   !.open = FALSE]
                    ELSE [r EXCEPT !.decode_errors = @ + 1]
               [] HasFragment(line) ->
                    [r EXCEPT !.pc = "yielded", !.yielded = Append(@, n),
                              !.frags = @ \cup {n}]
               [] OTHER ->
                    IF LineDone(line)
                    THEN [r EXCEPT !.pc = "ended", !.open = FALSE]
                    ELSE r
    /\ UNCHANGED <<ivars, last, gen, session, rag>>

\* the connection ends (iter_lines is exhausted, the for loop is left) or
\* breaks (ChunkedEncodingError, lines 257-259): the with block closes the
\* response either way
ConnectionEnds(broken) ==
    /\ resp.pc = "running"
    /\ resp' = [resp EXCEPT !.pc = IF broken THEN "failed" ELSE "ended", !.open = FALSE]
    /\ UNCHANGED <<ivars, last, gen, session, rag>>

\* the consumer calls close() on its generator.
\* Suspended at the yield, GeneratorExit is raised there and the finally of
\* _managed_response (lines 130-132) closes the response; closing the wrapper
\* at its yield (line 334) ends the wrapper, whose frame held the only
\* reference to the inner generator, and the finalisation of the inner
\* generator raises GeneratorExit in it likewise.
\* A generator that has not started runs no code on close(): the response is
\* closed only if the interpreter releases the generator's frame and the
\* transport's finaliser closes the connection.
ConsumerClose(finalised) ==
    /\ resp.pc \in {"created", "yielded"}
    /\ finalised => (resp.pc = "created" /\ resp.via = "direct")
    /\ resp' = [resp EXCEPT !.pc = "closed",
                            !.open = IF resp.pc = "created" /\ resp.via = "direct"
                                     THEN ~finalised ELSE FALSE]
    /\ UNCHANGED <<ivars, last, gen, session, rag>>

\* the consumer drops the terminated generator
StreamForget ==
    /\ resp.pc \in Terminated
    /\ resp' = NoStream
    /\ UNCHANGED <<ivars, last, gen, session, rag>>

StreamNext ==
    \/ \E via \in {"direct", "wrapper"} : StreamOpen(via)
    \/ \E ok \in BOOLEAN : ConsumerNext(ok)
    \/ \E line \in Lines : ReadLine(line)
    \/ \E broken \in BOOLEAN : ConnectionEnds(broken)
    \/ \E finalised \in BOOLEAN : ConsumerClose(finalised)
    \/ StreamForget

StreamSpec == Init /\ [][StreamNext]_vars

\* --------------------------------------------------------- prompt building
\* A text is a sequence of character codes: Space is whitespace, ControlChar a
\* control character, Punct a character the service writes itself (labels,
\* separators, the truncation marker); the characters of an input are 1, 2, ...
Space == 0
ControlChar == -2
Punct == -1

\* an input text of n characters
Text(n) == [i \in 1..n |-> i]

\* n characters written by the service
Written(n) == [i \in 1..n |-> Punct]

\* "...[truncated]"
TruncationMarker == Written(14)

RECURSIVE StripLeft(_)
StripLeft(t) == IF t # <<>> /\ Head(t) = Space THEN StripLeft(Tail(t)) ELSE t

RECURSIVE StripRight(_)
StripRight(t) ==
    IF t # <<>> /\ t[Len(t)] = Space THEN StripRight(SubSeq(t, 1, Len(t) - 1)) ELSE t

\* RAGService._sanitize_input: control characters removed, then strip()
\* (the texts of the model hold no newlines to collapse)
sanitize_input(t) ==
    StripRight(StripLeft(SelectSeq(t, LAMBDA c : c # ControlChar)))

\* Python's s[:n]
SliceTo(t, n) ==
    LET m == IF n >= 0 THEN n ELSE Len(t) + n
    IN  IF m <= 0 THEN <<>> ELSE IF m >= Len(t) THEN t ELSE SubSeq(t, 1, m)

\* Python's s[-n:]
LastN(t, n) == IF Len(t) <= n THEN t ELSE SubSeq(t, Len(t) - n + 1, Len(t))

RECURSIVE Join(_, _)
\* sep.join(parts)
Join(parts, sep) ==
    IF parts = <<>> THEN <<>>
    ELSE IF Len(parts) = 1 THEN parts[1]
    ELSE parts[1] \o sep \o Join(Tail(parts), sep)

\* RAGService._format_user_context: "key: value" of every value that is not
\* None, joined by ", "
format_user_context(user_context) ==
    LET items == SelectSeq(user_context, LAMBDA kv : ~kv.none)
        shown == [i \in 1..Len(items) |-> Written(3) \o sanitize_input(items[i].value)]
    IN  Join(shown, Written(2))

\* length of message.get('type', 'user').capitalize()
TypeLen(type) == IF type = "user" THEN 4 ELSE 9

\* RAGService._format_chat_history: "Type: content" of the last HistoryWindow
\* messages whose sanitized content is not empty, joined by "\n"
format_chat_history(chat_history) ==
    LET recentMsgs == LastN(chat_history, HistoryWindow)
        kept == SelectSeq(recentMsgs, LAMBDA m : sanitize_input(m.content) # <<>>)
        shown == [i \in 1..Len(kept) |->
                    Written(TypeLen(kept[i].type) + 2) \o sanitize_input(kept[i].content)]
    IN  Join(shown, Written(1))

\* the sections of a prompt in the order build_prompt writes them
SectionOrder == <<"System", "User Profile", "Chat History", "Relevant Documents",
                  "Question", "Answer">>

\* length of what a section starts with: "System: ", "User Profile: ",
\* "Chat History:\n", "Relevant Documents:\n", "Question: ", "Answer:"
LabelLen(name) ==
    CASE name = "System" -> 8
      [] name = "User Profile" -> 14
      [] name = "Chat History" -> 14
      [] name = "Relevant Documents" -> 20
      [] name = "Question" -> 10
      [] OTHER -> 7

Section(name, text) == [name |-> name, text |-> text]

RECURSIVE SumLen(_)
SumLen(sections) ==
    IF sections = <<>> THEN 0
    ELSE LabelLen(Head(sections).name) + Len(Head(sections).text) + SumLen(Tail(sections))

\* len("\n\n".join(sections))
PromptLen(sections) ==
    IF sections = <<>> THEN 0 ELSE SumLen(sections) + 2 * (Len(sections) - 1)

\* a list insertion that always appends
ListInsertLast(l, i, x) == Append(l, x)

\* Python's list.insert(i, x) for a negative index i within the list
ListInsert(l, i, x) ==
    LET at == Len(l) + i
    IN  SubSeq(l, 1, at) \o <<x>> \o SubSeq(l, at + 1, Len(l))

\* a first truncation that leaves out the marker
TruncateContextSilently(docs) ==
    IF Len(docs) > max_context_length THEN SubSeq(docs, 1, max_context_length) ELSE docs

\* build_prompt, lines 356-359
TruncateContext(docs) ==
    IF Len(docs) > max_context_length
    THEN SubSeq(docs, 1, max_context_length) \o TruncationMarker
    ELSE docs

\* build_prompt, lines 361-383: the sections before the length check
Assemble(docs, system_context, user_context, chat_history, question) ==
    LET user_context_str == format_user_context(user_context)
        history_str == format_chat_history(chat_history)
    IN  (IF system_context # <<>> THEN <<Section("System", system_context)>> ELSE <<>>)
        \o (IF user_context # <<>> /\ user_context_str # <<>>
            THEN <<Section("User Profile", user_context_str)>> ELSE <<>>)
        \o (IF chat_history # <<>> /\ history_str # <<>>
            THEN <<Section("Chat History", history_str)>> ELSE <<>>)
        \o (IF docs # <<>> THEN <<Section("Relevant Documents", docs)>> ELSE <<>>)
        \o <<Section("Question", question), Section("Answer", <<>>)>>

\* RAGService._build_prompt: the prompt as the list of its sections
build_prompt(retrieved_docs, system_context, user_context, chat_history, question) ==
    LET sys == sanitize_input(system_context)
        docs == TruncateContext(sanitize_input(retrieved_docs))
        q == sanitize_input(question)
        sections == Assemble(docs, sys, user_context, chat_history, q)
        excess == PromptLen(sections) - max_prompt_length
    IN  IF excess > 0 /\ Len(docs) > excess
        THEN LET cut == SliceTo(docs, Len(docs) - excess - TruncationSlack)
                            \o TruncationMarker
                 others == SelectSeq(sections, LAMBDA s : s.name # "Relevant Documents")
             IN  ListInsert(others, -2, Section("Relevant Documents", cut))
        ELSE sections

\* the arguments build_prompt is applied to
DocsInputs == {<<>>, <<Space, Space>>, Text(1), Text(max_context_length - 30),
               Text(max_context_length + 1), Text(max_context_length + 40)}
SystemInputs == {<<>>, Text(20)}
UserInputs == {<<>>, <<[none |-> TRUE, value |-> <<>>]>>,
               <<[none |-> FALSE, value |-> Text(5)]>>}
HistoryInputs == {<<>>,
                  <<[type |-> "user", content |-> <<Space>>]>>,
                  <<[type |-> "user", content |-> Text(30)]>>,
                  <<[type |-> "user", content |-> Text(60)],
                    [type |-> "assistant", content |-> Text(40)]>>,
                  <<[type |-> "user", content |-> Text(max_prompt_length)]>>}
QuestionInputs == {<<ControlChar>>, Text(5), Text(40)}

\* query() step 2, or any other caller of _build_prompt
BuildPromptCall(docs, sys, uc, hist, q) ==
    /\ rag' = [rag EXCEPT !.pc = "built",
                          !.args = [docs |-> docs, sys |-> sys, uc |-> uc,
                                    hist |-> hist, q |-> q],
                          !.prompt = build_prompt(docs, sys, uc, hist, q)]
    /\ UNCHANGED <<ivars, last, gen, session, resp>>

PromptNext ==
    \E docs \in DocsInputs, sys \in SystemInputs, uc \in UserInputs,
       hist \in HistoryInputs, q \in QuestionInputs :
        BuildPromptCall(docs, sys, uc, hist, q)

PromptSpec == Init /\ [][PromptNext]_vars

\* ------------------------------------------------------------ query call
\* RAGService._validate_query_input returns without raising ValueError
ValidQueryInput(query, config) ==
    /\ query # <<>>
    /\ StripRight(StripLeft(query)) # <<>>
    /\ Len(query) <= MAX_QUERY_LENGTH
    /\ ~(config.max_results <= 0 \/ config.max_results > 50)
    /\ config.temperature # NoNumber => (0 <= config.temperature /\ config.temperature <= 2)
    /\ config.max_tokens # NoNumber => config.max_tokens > 0

\* the query strings callers pass
QueryStrings == {<<>>, <<Space, Space>>, <<ControlChar>>, Text(3),
                 Text(MAX_QUERY_LENGTH), Text(MAX_QUERY_LENGTH + 1)}

\* the configurations callers pass: the default with one field set
QueryConfigs ==
    {[DefaultConfig EXCEPT !.max_results = n] : n \in {0, 1, 50, 51}}
    \cup {[DefaultConfig EXCEPT !.temperature = x] : x \in {-1, 0, 2, 3}}
    \cup {[DefaultConfig EXCEPT !.max_tokens = n] : n \in {0, 1}}
    \cup {[DefaultConfig EXCEPT !.stream = TRUE]}

\* the tenacity decorator of query (lines 176-179): like that of
\* generate_response, it retries on every exception and ends in RetryError
QueryTenacity(c, exc) ==
    IF c.attempt < MAX_RETRIES
    THEN [c EXCEPT !.pc = "validate", !.attempt = @ + 1]
    ELSE [c EXCEPT !.pc = "done", !.out = "RetryError"]

\* a caller invokes query(query, config=config)
QueryCall(query, config) ==
    /\ rag.call.pc = "idle"
    /\ rag' = [rag EXCEPT !.call = [QueryIdle EXCEPT !.pc = "validate", !.query = query,
                                                    !.config = config, !.attempt = 1]]
    /\ UNCHANGED <<ivars, last, gen, session, resp>>

\* query, lines 191-196: defaults, validation, sanitization
QueryValidate ==
    /\ rag.call.pc = "validate"
    /\ rag' = [rag EXCEPT !.call =
                 IF ValidQueryInput(rag.call.query, rag.call.config)
                 THEN [@ EXCEPT !.pc = "retrieve"]
                 ELSE QueryTenacity(@, "ValueError")]
    /\ UNCHANGED <<ivars, last, gen, session, resp>>

\* query, lines 211-231: _retrieve_context, then _build_prompt; a failure of
\* the index service arrives as VectorStoreException and leaves as RAGException
QueryRetrieve(ok) ==
    /\ rag.call.pc = "retrieve"
    /\ rag' = [rag EXCEPT !.call =
                 IF ok THEN [@ EXCEPT !.pc = "generate", !.retrievals = @ + 1]
                 ELSE QueryTenacity([@ EXCEPT !.retrievals = @ + 1], "RAGException")]
    /\ UNCHANGED <<ivars, last, gen, session, resp>>

\* a _generate_response whose streaming branch calls generate_response at
\* once instead of handing out a generator that does so
QueryGenerateEager(ok) ==
    /\ rag.call.pc = "generate"
    /\ rag.call.config.stream => ok
    /\ rag' = [rag EXCEPT !.call =
                 IF rag.call.config.stream THEN [@ EXCEPT !.pc = "done", !.out = "generator"]
                 ELSE IF ok THEN [@ EXCEPT !.pc = "done", !.out = "result",
                                           !.generations = @ + 1]
                 ELSE QueryTenacity([@ EXCEPT !.generations = @ + 1], "RAGException")]
    /\ resp' = IF rag.call.config.stream
               THEN [NoStream EXCEPT !.pc = "created", !.via = "wrapper"]
               ELSE resp
    /\ gen' = IF rag.call.config.stream
              THEN [GenIdle EXCEPT !.pc = "validate", !.prompt = "ok",
                                   !.stream = TRUE, !.attempt = 1]
              ELSE gen
    /\ UNCHANGED <<ivars, last, session>>

\* query, lines 233-257: _generate_response. With config.stream the wrapper
\* generator of _create_streaming_response is created and returned, none of
\* its body has run and the generation client is not called; otherwise
\* generate_response is called and its failure leaves as RAGException
QueryGenerate(ok) ==
    /\ rag.call.pc = "generate"
    /\ rag.call.config.stream => ok
    /\ rag' = [rag EXCEPT !.call =
                 IF rag.call.config.stream THEN [@ EXCEPT !.pc = "done", !.out = "generator"]
                 ELSE IF ok THEN [@ EXCEPT !.pc = "done", !.out = "result",
                                           !.generations = @ + 1]
                 ELSE QueryTenacity([@ EXCEPT !.generations = @ + 1], "RAGException")]
    /\ resp' = IF rag.call.config.stream
               THEN [NoStream EXCEPT !.pc = "created", !.via = "wrapper"]
               ELSE resp
    /\ UNCHANGED <<ivars, last, gen, session>>

\* the caller has its result or its error
QueryReturn ==
    /\ rag.call.pc = "done"
    /\ rag' = [rag EXCEPT !.call = QueryIdle]
    /\ UNCHANGED <<ivars, last, gen, session, resp>>

QueryNext ==
    \/ \E query \in QueryStrings, config \in QueryConfigs : QueryCall(query, config)
    \/ QueryValidate
    \/ \E ok \in BOOLEAN : QueryRetrieve(ok)
    \/ \E ok \in BOOLEAN : QueryGenerate(ok)
    \/ QueryReturn

QuerySpec == Init /\ [][QueryNext]_vars

\* -------------------------------------------------------- sanity check
\* the max_results values callers of query_with_sanity_check pass
SanityMaxResults == {0, 5}

\* query_with_sanity_check, lines 462-469: the configuration is built and
\* query() is called; temperature 1 stands for the default 0.7
SanityCall(question, max_results) ==
    /\ rag.sanity.pc = "idle"
    /\ rag.call.pc = "idle"
    /\ rag' = [rag EXCEPT !.sanity = [SanityIdle EXCEPT !.pc = "query"],
                          !.call = [QueryIdle EXCEPT
                                      !.pc = "validate", !.query = question,
                                      !.config = [max_results |-> max_results,
                                                  temperature |-> 1,
                                                  max_tokens |-> 512,
                                                  stream |-> FALSE],
                                      !.attempt = 1]]
    /\ UNCHANGED <<ivars, last, gen, session, resp>>

\* query() has returned or raised inside the try block of lines 460-497
SanityQueryDone ==
    /\ rag.sanity.pc = "query"
    /\ rag.call.pc = "done"
    /\ rag' = [rag EXCEPT !.call = QueryIdle,
                          !.sanity = IF rag.call.out = "result"
                                     THEN [@ EXCEPT !.pc = "verify", !.initial = "result"]
                                     ELSE [@ EXCEPT !.pc = "done", !.initial = rag.call.out,
                                                    !.out = "RAGException"]]
    /\ UNCHANGED <<ivars, last, gen, session, resp>>

\* lines 473-497: the second generate_response call; its result is returned
\* beside the initial response and sources, its failure is caught by the
\* except clause of line 495 and raised as RAGException
SanityVerify(ok) ==
    /\ rag.sanity.pc = "verify"
    /\ rag' = [rag EXCEPT !.sanity = [@ EXCEPT !.pc = "done", !.verified = ok,
                                               !.out = IF ok THEN "result"
                                                       ELSE "RAGException"]]
    /\ UNCHANGED <<ivars, last, gen, session, resp>>

\* the caller has its result or its error
SanityReturn ==
    /\ rag.sanity.pc = "done"
    /\ rag' = [rag EXCEPT !.sanity = SanityIdle]
    /\ UNCHANGED <<ivars, last, gen, session, resp>>

SanityNext ==
    \/ \E question \in QueryStrings, n \in SanityMaxResults : SanityCall(question, n)
    \/ QueryValidate
    \/ \E ok \in BOOLEAN : QueryRetrieve(ok)
    \/ \E ok \in BOOLEAN : QueryGenerate(ok)
    \/ SanityQueryDone
    \/ \E ok \in BOOLEAN : SanityVerify(ok)
    \/ SanityReturn

SanitySpec == Init /\ [][SanityNext]_vars

\* ----------------------------------------------------------------- status
\* a readiness check that is content with a collection it can count
IsReadyCountable(initialized, count) ==
    IF ~initialized THEN FALSE
    ELSE IF count = NoNumber THEN FALSE
    ELSE count >= 0

\* VectorStoreService.is_ready, lines 435-443; count is what
\* collection.count() answers, NoNumber when it raises
IsReady(initialized, count) ==
    IF ~initialized THEN FALSE
    ELSE IF count = NoNumber THEN FALSE
    ELSE count > 0

\* VectorStoreService.is_ready of the running service: the collection exists
\* and holds an entry
is_ready == IsReady(TRUE, Len(vectorstore))

\* a call of is_ready; initialized is whether self.vectorstore is set (it is
\* None between lines 62 and 68 of the constructor and after line 206),
\* fails a count() that raises
ReadinessCheck(initialized, fails) ==
    LET count == IF fails THEN NoNumber ELSE Len(vectorstore)
    IN  /\ last' = [op |-> "is_ready", initialized |-> initialized, fails |-> fails,
                    entries |-> IF initialized THEN Len(vectorstore) ELSE 0,
                    ret |-> IsReady(initialized, count)]
        /\ UNCHANGED <<files, vectorstore, persisted, ingested_files, metadata_lock,
                       cache, call, recent, cleared, preingest, gen, session, disk, resp, rag>>

\* readiness checks beside one ingesting worker
ReadyNext ==
    \/ ThreadStep(1)
    \/ \E initialized \in BOOLEAN, fails \in BOOLEAN : ReadinessCheck(initialized, fails)

ReadySpec == Init /\ [][ReadyNext]_vars

\* what self.vector_store of the orchestrator offers: it is the object that
\* get_vector_store returns (rag_service.py line 81), the Chroma collection
\* wrapper built at vector_store.py line 191, not the index service
VectorStoreAttrs == {"_collection", "add_documents", "persist", "similarity_search",
                     "similarity_search_with_score"}

\* RAGService.vector_store_is_ready
vector_store_is_ready ==
    IF "is_ready" \in VectorStoreAttrs THEN is_ready
    ELSE IF "collections" \in VectorStoreAttrs THEN TRUE
    ELSE IF "get_stats" \in VectorStoreAttrs THEN TRUE
    ELSE FALSE

\* get_status, lines 539-544
OverallStatus(vector_ready, llm_available) ==
    IF vector_ready /\ llm_available THEN "healthy"
    ELSE IF vector_ready \/ llm_available THEN "degraded"
    ELSE "unhealthy"

\* a cache test that never looks at the age of the cached status
CacheValidForever(current_time) ==
    rag.status_cache # NoStatus

\* RAGService.get_status, the test of the cached status
CacheValid(current_time) ==
    /\ current_time - rag.last_status_check < status_cache_ttl
    /\ rag.status_cache # NoStatus

\* RAGService.get_status; o is the answer to the availability probe
get_status(o) ==
    LET current_time == rag.now
        cached == CacheValid(current_time)
        vector_ready == vector_store_is_ready
        llm_available == IsAvailable(o)
        status_info == [status |-> OverallStatus(vector_ready, llm_available),
                        vector_store_ready |-> vector_ready,
                        llm_available |-> llm_available,
                        timestamp |-> current_time]
    IN  /\ cached => o = "listed"
        /\ rag' = IF cached
                  THEN [rag EXCEPT !.status = [called |-> TRUE, at |-> current_time,
                                               prior |-> rag.computed_at,
                                               probe |-> None,
                                               fresh |-> FALSE, index_ready |-> is_ready,
                                               info |-> rag.status_cache]]
                  ELSE [rag EXCEPT !.status_cache = status_info,
                                   !.last_status_check = current_time,
                                   !.computed_at = current_time,
                                   !.status = [called |-> TRUE, at |-> current_time,
                                               prior |-> rag.computed_at,
                                               probe |-> o,
                                               fresh |-> TRUE, index_ready |-> is_ready,
                                               info |-> status_info]]
        /\ last' = [op |-> "get_status"]
        /\ UNCHANGED <<ivars, gen, session, resp>>

\* a clear_cache of the orchestrator that forgets its own status cache
rag_clear_cache_search_only ==
    /\ cache' = <<>>
    /\ cleared' = cleared \cup KeysOf(cache)
    /\ preingest' = {}
    /\ recent' = <<>>
    /\ last' = [op |-> "rag_clear_cache", status |-> "success",
                hadSearches |-> cache # <<>>, hadStatus |-> rag.status_cache # NoStatus]
    /\ rag' = [rag EXCEPT !.computed_at = NoNumber]
    /\ UNCHANGED <<files, vectorstore, persisted, ingested_files, metadata_lock,
                   call, gen, session, disk, resp>>

\* RAGService.clear_cache: the index service's clear_cache, then the status
\* cache
rag_clear_cache ==
    /\ cache' = <<>>
    /\ cleared' = cleared \cup KeysOf(cache)
    /\ preingest' = {}
    /\ recent' = <<>>
    /\ last' = [op |-> "rag_clear_cache", status |-> "success",
                hadSearches |-> cache # <<>>, hadStatus |-> rag.status_cache # NoStatus]
    /\ rag' = [rag EXCEPT !.status_cache = NoStatus,
                          !.last_status_check = 0,
                          !.computed_at = NoNumber]
    /\ UNCHANGED <<files, vectorstore, persisted, ingested_files, metadata_lock,
                   call, gen, session, disk, resp>>

\* a second passes
Tick ==
    /\ rag.now < status_cache_ttl + MaxTicks
    /\ rag' = [rag EXCEPT !.now = @ + 1]
    /\ UNCHANGED <<ivars, last, gen, session, resp>>

\* status requests beside one ingesting worker
StatusNext ==
    \/ ThreadStep(1)
    \/ \E o \in ProbeOutcomes : get_status(o)
    \/ rag_clear_cache
    \/ Tick

StatusSpec == Init /\ [][StatusNext]_vars

\* searches and status requests beside the orchestrator's clear_cache
ClearNext ==
    \/ \E key \in SearchArgs, fails \in BOOLEAN : search_documents(key, fails)
    \/ \E o \in ProbeOutcomes : get_status(o)
    \/ rag_clear_cache
    \/ Tick

ClearSpec == Init /\ [][ClearNext]_vars

\* ------------------------------------------------------- configuration
\* Field(default=500, ge=100, le=2000) and Field(default=100, ge=0, le=500)
CHUNK_SIZE_DEFAULT == 500
CHUNK_SIZE_GE == 100
CHUNK_SIZE_LE == 2000
CHUNK_OVERLAP_DEFAULT == 100
CHUNK_OVERLAP_GE == 0
CHUNK_OVERLAP_LE == 500

\* what the environment or .env gives for the two settings (NoNumber: unset)
ChunkSizeInputs == {NoNumber, 50, 99, 100, 101, 300, 500, 501, 1000, 2000, 2001}
ChunkOverlapInputs == {NoNumber, -1, 0, 99, 100, 101, 300, 500, 501, 2000}

\* a validator that lets the overlap equal the chunk size
validate_chunk_overlap_lax(v, values) ==
    IF values.has_chunk_size /\ v > values.CHUNK_SIZE THEN "ValueError" ELSE "ok"

\* Settings.validate_chunk_overlap; values holds the fields validated before
validate_chunk_overlap(v, values) ==
    IF values.has_chunk_size /\ v >= values.CHUNK_SIZE THEN "ValueError" ELSE "ok"

\* Settings(): the fields are validated in the order of their declaration,
\* an unset field takes its default, which BaseSettings validates like a
\* given value; a field that failed is absent from values, and any failure
\* makes the construction raise ValidationError
LoadSettings(size, overlap) ==
    LET chunk_size == IF size = NoNumber THEN CHUNK_SIZE_DEFAULT ELSE size
        chunk_overlap == IF overlap = NoNumber THEN CHUNK_OVERLAP_DEFAULT ELSE overlap
        size_ok == CHUNK_SIZE_GE <= chunk_size /\ chunk_size <= CHUNK_SIZE_LE
        values == [has_chunk_size |-> size_ok, CHUNK_SIZE |-> chunk_size]
        range_ok == CHUNK_OVERLAP_GE <= chunk_overlap /\ chunk_overlap <= CHUNK_OVERLAP_LE
        overlap_ok == range_ok /\ validate_chunk_overlap(chunk_overlap, values) = "ok"
    IN  /\ last' = [op |-> "load_settings", size |-> size, overlap |-> overlap,
                    CHUNK_SIZE |-> chunk_size, CHUNK_OVERLAP |-> chunk_overlap,
                    ret |-> IF size_ok /\ overlap_ok THEN "Settings"
                            ELSE "ValidationError"]
        /\ UNCHANGED <<ivars, gen, session, resp, rag>>

\* the configuration is loaded from every environment
ConfigNext ==
    \E size \in ChunkSizeInputs, overlap \in ChunkOverlapInputs : LoadSettings(size, overlap)

ConfigSpec == Init /\ [][ConfigNext]_vars

\* ----------------------------------------------------------- transport
\* thread t enters is_available (line 104) or the request part of
\* generate_response (line 187)
TransportCall(t, kind) ==
    /\ session.req[t].pc = "idle"
    /\ session' = [session EXCEPT !.req[t] = [pc |-> "check", kind |-> kind,
                                              using |-> NoSession]]
    /\ UNCHANGED <<ivars, last, gen, resp, rag>>

\* _refresh_session_if_needed, line 64: the test of the session's age
RefreshCheck(t) ==
    /\ session.req[t].pc = "check"
    /\ session' = [session EXCEPT !.req[t].pc =
                      IF rag.now - session.last_refresh > session_refresh_interval
                      THEN "close" ELSE "send"]
    /\ UNCHANGED <<ivars, last, gen, resp, rag>>

\* _refresh_session_if_needed, line 66: self.session.close()
SessionClose(t) ==
    /\ session.req[t].pc = "close"
    /\ session' = [session EXCEPT !.closed = @ \cup {session.cur},
                                  !.req[t].pc = "setup"]
    /\ UNCHANGED <<ivars, last, gen, resp, rag>>

\* _setup_session, lines 37-60: a new Session object replaces self.session
SetupSession(t) ==
    /\ session.req[t].pc = "setup"
    /\ session' = [session EXCEPT !.cur = @ + 1,
                                  !.last_refresh = rag.now,
                                  !.req[t].pc = "send"]
    /\ UNCHANGED <<ivars, last, gen, resp, rag>>

\* self.session.get (line 105) or self.session.post (line 191): the request
\* leaves on the object self.session names now
Send(t) ==
    /\ session.req[t].pc = "send"
    /\ session' = [session EXCEPT !.req[t].pc = "inflight",
                                  !.req[t].using = session.cur]
    /\ UNCHANGED <<ivars, last, gen, resp, rag>>

\* the answer has been read
Receive(t) ==
    /\ session.req[t].pc = "inflight"
    /\ session' = [session EXCEPT !.req[t] = FirstSession.req[t]]
    /\ UNCHANGED <<ivars, last, gen, resp, rag>>

\* a step of thread t's request
TransportStep(t) ==
    \/ \E kind \in {"is_available", "generate"} : TransportCall(t, kind)
    \/ RefreshCheck(t)
    \/ SessionClose(t)
    \/ SetupSession(t)
    \/ Send(t)
    \/ Receive(t)

\* concurrent calls on one generation client while time passes
TransportNext ==
    \/ \E t \in Threads : TransportStep(t)
    \/ Tick

TransportSpec == Init /\ [][TransportNext]_vars

\* --------------------------------------------------------- batch ingestion
\* what settings.DOCUMENTS_PATH.iterdir() lists when a batch starts
DocumentRoots == {{"a.txt", "c.docx", "d.exe", "f.md"}, {"a.txt", "b.md"}}

\* the outcomes of the loader and of the hash computation of one file
LoadOutcomes == {"raise", "nodocs", "docs", "nohash"}

\* the batch after a step of thread t's ingest_document call that left l in
\* last: a call that returned True is counted (lines 398 and 410-411), one
\* that raised is logged or gathered and passed over (lines 397, 413-415)
Account(b, t, l) ==
    LET f == b.current[t]
        b1 == IF l.op = "ingest_commit"
              THEN [b EXCEPT !.ingested = @ \cup {f}]
              ELSE b
    IN  IF l.ret = None THEN b1
        ELSE [b1 EXCEPT !.current[t] = None,
                        !.count = IF l.ret = "True" THEN @ + 1 ELSE @,
                        !.unchanged = IF l.op = "ingest_call" /\ l.ret = "True"
                                      THEN @ \cup {f} ELSE @,
                        !.raised = IF l.ret = "DocumentProcessingError"
                                   THEN @ \cup {f} ELSE @]

\* ingest_all_documents ("seq") or ingest_all_documents_async ("async")
\* lists the documents root
ingest_all_start(mode, root) ==
    /\ rag.batch.pc = "idle"
    /\ rag' = [rag EXCEPT !.batch = [BatchIdle EXCEPT !.pc = "run", !.mode = mode,
                                                      !.todo = root]]
    /\ UNCHANGED <<ivars, last, gen, session, resp>>

\* the batch hands file f to ingest_document: in the calling thread (thread 1)
\* one file after the other, or in a free worker of the executor
BatchCall(t, f) ==
    /\ rag.batch.pc = "run"
    /\ f \in rag.batch.todo
    /\ rag.batch.current[t] = None
    /\ rag.batch.mode = "seq" => t = 1
    /\ IngestCall(t, f, FALSE)
    /\ rag' = [rag EXCEPT !.batch = Account([@ EXCEPT !.todo = @ \ {f}, !.current[t] = f],
                                            t, last')]

\* a later step of an ingest_document call of the batch
BatchStep(t) ==
    /\ rag.batch.pc = "run"
    /\ rag.batch.current[t] # None
    /\ \/ \E outcome \in LoadOutcomes : IngestLoad(t, outcome)
       \/ \E ok \in BOOLEAN : IngestAdd(t, ok)
       \/ \E ok \in BOOLEAN : IngestPersist(t, ok)
       \/ IngestCommit(t)
    /\ rag' = [rag EXCEPT !.batch = Account(@, t, last')]

\* every listed file has been handed out and every call has returned: the
\* batch returns its count (lines 400 and 417)
ingest_all_return ==
    /\ rag.batch.pc = "run"
    /\ rag.batch.todo = {}
    /\ \A t \in Threads : rag.batch.current[t] = None
    /\ rag' = [rag EXCEPT !.batch = [@ EXCEPT !.pc = "done", !.out = rag.batch.count]]
    /\ UNCHANGED <<ivars, last, gen, session, resp>>

\* one batch ingestion
BatchOnly ==
    \/ \E mode \in {"seq", "async"}, root \in DocumentRoots : ingest_all_start(mode, root)
    \/ \E t \in Threads, f \in Paths : BatchCall(t, f)
    \/ \E t \in Threads : BatchStep(t)
    \/ ingest_all_return

\* batch ingestion beside a thread that ingests single files
BatchNext ==
    \/ BatchOnly
    \/ rag.batch.current[2] = None /\ ThreadStep(2)

BatchSpec == Init /\ [][BatchNext]_vars

\* one batch ingestion on its own; the scheduler runs the batch and every
\* call of it that can take a step
BatchFairSpec ==
    /\ Init /\ [][BatchOnly]_vars
    /\ WF_vars(\E t \in Threads, f \in Paths : BatchCall(t, f))
    /\ \A t \in Threads : WF_vars(BatchStep(t))
    /\ WF_vars(ingest_all_return)

\* ------------------------------------------------------- context retrieval
\* one character of the "\n\n" that joins the chunks' texts
Newline == [source |-> "\n", hash |-> 0, i |-> 0]

\* doc.page_content: the text of a chunk, two characters long
PageContent(c) == <<c, c>>

\* the elements of seq at the positions in keep, in order
RECURSIVE Picked(_, _, _)
Picked(seq, keep, i) ==
    IF i > Len(seq) THEN <<>>
    ELSE (IF i \in keep THEN <<seq[i]>> ELSE <<>>) \o Picked(seq, keep, i + 1)

\* VectorStoreService.get_context_sections, lines 467-485, from the documents
\* and scores of lines 459-465 (scores is <<>> for None)
get_context_sections(documents, include_scores, scores) ==
    [retrieved_docs |-> Join([i \in 1..Len(documents) |-> PageContent(documents[i])],
                             <<Newline, Newline>>),
     sources |-> [i \in 1..Len(documents) |-> [filename |-> documents[i].source]],
     has_scores |-> include_scores /\ scores # <<>>,
     scores |-> IF include_scores /\ scores # <<>> THEN scores ELSE <<>>]

\* RAGService._retrieve_context, lines 278-296, applied to the sections that
\* get_context_sections(query, k=config.max_results) returned
retrieve_context(query, documents, context_sections, min_score_threshold) ==
    IF min_score_threshold # NoNumber /\ context_sections.has_scores
    THEN LET scores == context_sections.scores
             keep == {i \in 1..Len(scores) : scores[i] >= min_score_threshold}
             filtered_docs == Picked(context_sections.retrieved_docs, keep, 1)
         IN  [retrieved_docs |-> Join([i \in 1..Len(filtered_docs) |-> <<filtered_docs[i]>>],
                                      <<Newline, Newline>>),
              sources |-> Picked(context_sections.sources, keep, 1),
              has_scores |-> TRUE,
              scores |-> Picked(scores, keep, 1)]
    ELSE context_sections

\* the score thresholds a QueryConfig carries
Thresholds == {NoNumber, 2}

\* the max_results a QueryConfig carries: the default
MaxResults == {DefaultConfig.max_results}

\* RAGService._retrieve_context(query, config): get_context_sections calls
\* search_documents(query, k) through its lru_cache; fails is a failing
\* similarity search
RetrieveContext(query, max_results, min_score_threshold, fails) ==
    LET key == <<query, max_results, 0>>
        i == CachePos(key)
        hit == i > 0
        fresh == SearchBackend(vectorstore, key)
        documents == IF hit THEN cache[i].val ELSE IF fails THEN <<>> ELSE fresh
        context_sections == get_context_sections(documents, FALSE, <<>>)
    IN  /\ hit => ~fails
        /\ cache' = IF hit THEN Append(Without(cache, i), cache[i])
                    ELSE IF fails THEN cache
                    ELSE CachePut(cache, [key |-> key, val |-> fresh, at |-> rag.now])
        /\ recent' = IF fails THEN recent ELSE Remember(recent, key, documents)
        /\ cleared' = cleared \ {key}
        /\ preingest' = IF hit THEN preingest ELSE preingest \cap (KeysOf(cache') \ {key})
        /\ last' = [op |-> "retrieve_context", query |-> query,
                    min_score_threshold |-> min_score_threshold,
                    ok |-> ~fails,
                    documents |-> documents,
                    out |-> IF fails THEN "VectorStoreException"
                            ELSE retrieve_context(query, documents, context_sections,
                                                  min_score_threshold)]
        /\ UNCHANGED <<files, vectorstore, persisted, ingested_files, metadata_lock,
                       call, gen, session, disk, resp, rag>>

\* context retrieval beside one ingesting worker
RetrieveNext ==
    \/ ThreadStep(1)
    \/ \E query \in {"qa", "qb"}, max_results \in MaxResults,
          min_score_threshold \in Thresholds, fails \in BOOLEAN :
            RetrieveContext(query, max_results, min_score_threshold, fails)

RetrieveSpec == Init /\ [][RetrieveNext]_vars

\* ------------------------------------------------------- streaming query
\* the consumer's first next() on the generator a streaming query() returned
\* runs _create_streaming_response up to its call of generate_response
\* (lines 323-330)
WrapperStart(prompt) ==
    /\ resp.pc = "created"
    /\ resp.via = "wrapper"
    /\ rag.call.pc = "idle"
    /\ GenCall(prompt, TRUE)

\* generate_response has returned the response generator or raised (tenacity's
\* RetryError): the wrapper starts to iterate (line 332), or its except clause
\* raises LLMException out of the consumer's next() (lines 335-337)
WrapperResume ==
    /\ resp.pc = "created"
    /\ resp.via = "wrapper"
    /\ gen.pc = "done"
    /\ gen' = GenIdle
    /\ resp' = IF gen.out = "stream"
               THEN [resp EXCEPT !.pc = "running", !.open = TRUE]
               ELSE [resp EXCEPT !.pc = "failed"]
    /\ last' = [op |-> "first_next",
                raised |-> IF gen.out = "stream" THEN None ELSE "LLMException",
                cause |-> gen.out, attempts |-> gen.attempt, posts |-> Len(gen.posts)]
    /\ UNCHANGED <<ivars, session, rag>>

\* one caller: it queries, and in streaming mode pulls from the generator it
\* was given before it queries again
LazyNext ==
    \/ \E config \in {DefaultConfig, [DefaultConfig EXCEPT !.stream = TRUE]} :
           resp.pc = "none" /\ gen.pc = "idle" /\ QueryCall(Text(3), config)
    \/ QueryValidate
    \/ \E ok \in BOOLEAN : QueryRetrieve(ok)
    \/ \E ok \in BOOLEAN : QueryGenerate(ok)
    \/ QueryReturn
    \/ \E prompt \in {"ok", "too_long"} : WrapperStart(prompt)
    \/ GenValidate
    \/ \E o \in ProbeOutcomes : GenProbe(o)
    \/ \E r \in PostOutcomes : GenPost(r)
    \/ WrapperResume
    \/ \E broken \in BOOLEAN : ConnectionEnds(broken)
    \/ StreamForget

LazySpec == Init /\ [][LazyNext]_vars

\* ------------------------------------------------------------------ restart
\* _load_metadata_backup: the records of a backup that parses, none otherwise
load_metadata_backup(d) ==
    IF d.backup.state = "ok" THEN d.backup.docs ELSE NoRecords

\* _load_metadata for a metadata file that is absent, parses as the mapping
\* _save_metadata writes ("ok"), or does not parse ("corrupt"): no file gives
\* no records, a file that fails to load sends the loader to the backup
load_metadata(d) ==
    IF d.file.state = "absent" THEN NoRecords
    ELSE IF d.file.state = "ok" THEN d.file.docs
    ELSE load_metadata_backup(d)

\* the process dies and the service is constructed again (__init__): worker
\* threads, the lock and the lru_cache are new, the collection is what was
\* persisted, the records are what _load_metadata finds in the data directory
Restart ==
    /\ vectorstore' = Take(vectorstore, persisted)
    /\ persisted' = Len(vectorstore')
    /\ ingested_files' = load_metadata(disk)
    /\ metadata_lock' = NoThread
    /\ cache' = <<>>
    /\ call' = [t \in Threads |-> Idle]
    /\ recent' = <<>>
    /\ cleared' = {}
    /\ preingest' = {}
    /\ last' = [op |-> "restart",
                saving |-> {call[t].f : t \in {u \in Threads : call[u].pc = "save_metadata"}},
                docs |-> ingested_files]
    /\ UNCHANGED <<files, disk, gen, session, resp, rag>>

\* ingesting workers and restarts of the service
RestartNext ==
    \/ \E t \in Threads : ThreadStep(t)
    \/ Restart

RestartSpec == Init /\ [][RestartNext]_vars

\* ------------------------------------------------------- all operations
\* a step of a single-file ingest_document call of thread 2
OpsIngestStep ==
    \/ IngestCall(2, "a.txt", TRUE) /\ UNCHANGED rag
    \/ IngestLoad(2, "docs") /\ UNCHANGED rag
    \/ IngestAdd(2, TRUE) /\ UNCHANGED rag
    \/ \E ok \in BOOLEAN : IngestPersist(2, ok) /\ UNCHANGED rag
    \/ IngestCommit(2) /\ UNCHANGED rag

\* ingest, ingest_all, search, query, status and clear_cache side by side;
\* of query() the step that reaches the index, _retrieve_context
OpsNext ==
    \/ rag.batch.current[2] = None /\ OpsIngestStep
    \/ ingest_all_start("seq", {"a.txt"})
    \/ \E f \in Paths : BatchCall(1, f)
    \/ BatchStep(1)
    \/ ingest_all_return
    \/ search_documents(<<"qa", NoK, 0>>, FALSE)
    \/ RetrieveContext("qa", DefaultConfig.max_results, NoNumber, FALSE)
    \/ get_status("listed")
    \/ rag_clear_cache

OpsSpec == Init /\ [][OpsNext]_vars

\* ------------------------------------------------------------------ claims
HasRecord(f) == ingested_files[f] # NoDoc

\* number of persisted chunks of file f that carry hash h
PersistedChunks(f, h) ==
    Cardinality({i \in 1..persisted : i <= Len(vectorstore)
                                      /\ vectorstore[i].source = f
                                      /\ vectorstore[i].hash = h})

\* C1: once an ingest call has written its chunks, persisted them and stored the
\* record (all that is left of it is to save and return), no search is answered
\* from a cache entry made before that write
C1_IngestInvalidatesCache ==
    ~(last.op = "search" /\ last.hit /\ last.stale)

C4_ReingestUpdatesRecord ==
    \A t \in Threads : \A f \in Tracked : \A v \in 0..MaxVer :
        (call[t].pc = "lock" /\ call[t].f = f /\ call[t].snap.ver = v /\ HasRecord(f))
            ~> (/\ ingested_files[f].file_hash = HashOf(v)
                /\ ingested_files[f].chunk_count = ChunkCount(v))

\* C5: when the loader raises, ingest raises DocumentProcessingError and the
\* call has changed neither the index nor a record (the metadata file is only
\* written by _save_metadata, which this path does not reach)
C5_LoaderFailureLeavesState ==
    (last.op = "ingest_load" /\ last.outcome = "raise") =>
        /\ last.ret = "DocumentProcessingError"
        /\ ~last.touched

\* C5 witness: a forced re-ingest of a recorded, indexed file failed in the loader
C5_Witness ==
    /\ last.op = "ingest_load"
    /\ last.outcome = "raise"
    /\ last.ret = "DocumentProcessingError"
    /\ \E f \in Paths : HasRecord(f)
    /\ Len(vectorstore) > 0

C7_SearchAfterClearIsFresh ==
    (last.op = "search" /\ last.wasCleared) =>
        /\ ~last.hit
        /\ last.ok => last.val = SearchBackend(vectorstore, last.key)

\* C7 witness: such a search has returned chunks
C7_Witness ==
    /\ last.op = "search"
    /\ last.wasCleared
    /\ last.ok
    /\ Len(last.val) > 0

\* a thread between change detection and the record update of its call
InSection(t) == call[t].pc \in {"load", "add", "persist", "lock"}

\* C8: no two ingest calls for the same filename are between change detection
\* and record update at the same time
C8_SerializedPerFilename ==
    \A t1, t2 \in Threads :
        (t1 # t2 /\ InSection(t1) /\ InSection(t2)) => call[t1].f # call[t2].f

\* the 4xx answers other than 429
Fatal4xx == {"400", "404"}

\* C10: no generate request follows one the backend answered with a 4xx status
\* other than 429
C10_NoRetryOn4xx ==
    \A i \in 1..Len(gen.posts) :
        gen.posts[i] \in Fatal4xx => i = Len(gen.posts)

\* the failures of a generate request that may pass: 5xx, 429, timeout, reset
Transient == {"429", "500", "503", "timeout", "conn_reset"}

\* C11: one generate_response call sends at most MAX_RETRIES generate requests
\* and makes at most MAX_RETRIES attempts; when the last allowed attempt fails
\* the call ends with an error for the caller
C11_BoundedRetries ==
    /\ Len(gen.posts) <= MAX_RETRIES
    /\ gen.attempt <= MAX_RETRIES
    /\ (gen.pc = "done" /\ gen.out \notin {"text", "stream"}) =>
           (gen.attempt = MAX_RETRIES /\ gen.out = "RetryError")

\* C11 witness: the backend failed transiently MAX_RETRIES times and the call
\* gave up
C11_Witness ==
    /\ gen.pc = "done"
    /\ gen.out = "RetryError"
    /\ Len(gen.posts) = MAX_RETRIES
    /\ \A i \in 1..Len(gen.posts) : gen.posts[i] \in Transient

\* C12: a generate_response call that ends on a timed-out request surfaces an
\* error of kind Timeout, and one that ends on a 404 an error of kind
\* ModelNotFound
C12_ErrorKinds ==
    (gen.pc = "done" /\ Len(gen.posts) > 0) =>
        LET r == gen.posts[Len(gen.posts)]
        IN  /\ r = "timeout" => gen.out = "Timeout"
            /\ r = "404" => gen.out = "ModelNotFound"

RECURSIVE Ascending(_)
\* the elements of a set of numbers in increasing order
Ascending(S) ==
    IF S = {} THEN <<>>
    ELSE LET m == CHOOSE x \in S : \A y \in S : y <= x
         IN  Append(Ascending(S \ {m}), m)

\* the fragments of all fragment lines read so far have been yielded, once
\* each and in the order of their lines
FragmentsInOrder == resp.yielded = Ascending(resp.frags)

\* C13: the fragments are yielded in backend order; while a fragment is in the
\* consumer's hands no later line has been read; no line is read after the
\* first line with done=true; and a terminated stream yields nothing more
C13_LazyOrderedStream ==
    /\ [](/\ FragmentsInOrder
          /\ resp.pc = "yielded" => resp.yielded[Len(resp.yielded)] = resp.read
          /\ resp.done > 0 => resp.read = resp.done)
    /\ [][resp.pc \in Terminated =>
             (resp'.pc = "none" \/ resp'.yielded = resp.yielded)]_vars

\* C13 witness: two fragments were handed over, lines lay between them, and
\* the stream stopped at the completion signal
C13_Witness ==
    /\ resp.pc = "ended"
    /\ resp.done = resp.read
    /\ Len(resp.yielded) >= 2
    /\ resp.read > Len(resp.yielded)

\* C14: the decode failures of a stream never exceed the bound; below the
\* bound no fragment of a line read is lost; at the bound the stream has
\* failed and its response is closed
C14_BoundedDecodeFailures ==
    /\ resp.decode_errors <= max_decode_errors
    /\ resp.decode_errors < max_decode_errors => FragmentsInOrder
    /\ resp.decode_errors = max_decode_errors =>
           (resp.pc = "failed" /\ resp.line = "bad" /\ ~resp.open)

\* C14 witness: a fragment was yielded after max_decode_errors - 1 undecodable
\* lines
C14_Witness ==
    /\ resp.pc = "yielded"
    /\ resp.decode_errors = max_decode_errors - 1
    /\ resp.read = max_decode_errors

\* C15: no terminated stream leaves its response open
C15_TerminatedStreamClosed ==
    resp.pc \in Terminated => ~resp.open

\* the section of the built prompt with the given name is present
Has(name) == \E i \in 1..Len(rag.prompt) : rag.prompt[i].name = name

\* the text of that section
TextOf(name) ==
    rag.prompt[CHOOSE i \in 1..Len(rag.prompt) : rag.prompt[i].name = name].text

\* position of a section name in SectionOrder
OrderOf(name) == CHOOSE i \in 1..Len(SectionOrder) : SectionOrder[i] = name

\* the sections of the built prompt stand in the order of SectionOrder, none twice
SectionsInOrder ==
    \A i, j \in 1..Len(rag.prompt) :
        i < j => OrderOf(rag.prompt[i].name) < OrderOf(rag.prompt[j].name)

\* the input of a section is empty once sanitized and formatted
InputEmpty(name) ==
    CASE name = "System" -> sanitize_input(rag.args.sys) = <<>>
      [] name = "User Profile" -> format_user_context(rag.args.uc) = <<>>
      [] name = "Chat History" -> format_chat_history(rag.args.hist) = <<>>
      [] name = "Relevant Documents" -> sanitize_input(rag.args.docs) = <<>>
      [] name = "Question" -> sanitize_input(rag.args.q) = <<>>
      [] OTHER -> FALSE

\* the sections that carry an input
InputSections == {"System", "User Profile", "Chat History", "Relevant Documents",
                  "Question"}

\* the prompt was rebuilt after the length check
Rebuilt ==
    /\ Has("Relevant Documents")
    /\ TextOf("Relevant Documents") # TruncateContext(sanitize_input(rag.args.docs))

Assembled ==
    Assemble(TruncateContext(sanitize_input(rag.args.docs)), sanitize_input(rag.args.sys),
             rag.args.uc, rag.args.hist, sanitize_input(rag.args.q))

\* the documents text is longer than max_context_length
LongDocs == Len(sanitize_input(rag.args.docs)) > max_context_length

\* the documents section holds the first max_context_length characters of the
\* documents text followed by the marker
CutToContextLength ==
    /\ Has("Relevant Documents")
    /\ TextOf("Relevant Documents") =
           SubSeq(sanitize_input(rag.args.docs), 1, max_context_length) \o TruncationMarker

\* the Question section holds the whole question and the Answer cue ends the prompt
QuestionAnswerIntact ==
    /\ Has("Question")
    /\ TextOf("Question") = sanitize_input(rag.args.q)
    /\ rag.prompt[Len(rag.prompt)] = Section("Answer", <<>>)

C19_ShortenedPromptFits ==
    (rag.pc = "built" /\ Rebuilt) => PromptLen(rag.prompt) <= max_prompt_length

\* C16: a query() call with an invalid input ends by raising the input error
\* (ValueError) to its caller with no retrieval and no generation performed
C16_InvalidQueryRejected ==
    (rag.call.pc = "done" /\ ~ValidQueryInput(rag.call.query, rag.call.config)) =>
        /\ rag.call.out = "ValueError"
        /\ rag.call.retrievals = 0
        /\ rag.call.generations = 0

\* C20: a freshly computed status is healthy exactly when the index is ready
\* and the generation backend is available, degraded exactly when one of the
\* two holds and unhealthy exactly when neither holds
C20_StatusComposition ==
    rag.status.fresh =>
        LET ready == rag.status.index_ready
            avail == rag.status.info.llm_available
            st == rag.status.info.status
        IN  /\ st = "healthy" <=> (ready /\ avail)
            /\ st = "degraded" <=> (ready # avail)
            /\ st = "unhealthy" <=> (~ready /\ ~avail)

\* a computed status younger than the TTL, with no clear_cache since, existed
\* when the last get_status ran
WithinTTL ==
    /\ rag.status.prior # NoNumber
    /\ rag.status.at - rag.status.prior < status_cache_ttl

\* within the TTL get_status returns the status computed then without
\* probing; otherwise it probes and returns a status computed now
StatusCacheTTL ==
    rag.status.called =>
        IF WithinTTL
        THEN /\ ~rag.status.fresh
             /\ rag.status.probe = None
             /\ rag.status.info.timestamp = rag.status.prior
        ELSE /\ rag.status.fresh
             /\ rag.status.probe # None
             /\ rag.status.info.timestamp = rag.status.at
             /\ rag.status.info.llm_available = IsAvailable(rag.status.probe)

\* C21: within the TTL of a computed status and with no clear_cache in
\* between, get_status returns the cached status without probing; after the
\* TTL or a clear_cache the next get_status probes the index and the backend
\* and returns their current state
C21_StatusCachedWithinTTL ==
    /\ StatusCacheTTL
    /\ rag.status.called /\ rag.status.fresh =>
           rag.status.info.vector_store_ready = rag.status.index_ready

\* C22: after the orchestrator's clear_cache has returned, the search cache
\* of the index service and the status cache are both empty
C22_ClearCacheEmptiesBoth ==
    last.op = "rag_clear_cache" =>
        /\ last.status = "success"
        /\ cache = <<>>
        /\ rag.status_cache = NoStatus
        /\ rag.last_status_check = 0

\* a clear_cache that found both caches populated
C22_Witness ==
    /\ last.op = "rag_clear_cache"
    /\ last.hadSearches
    /\ last.hadStatus
    /\ cache = <<>>
    /\ rag.status_cache = NoStatus
\* C23: when the query of query_with_sanity_check succeeded and the
\* verification generation fails, the caller still receives the original
\* answer and its sources instead of an error
C23_FailedVerificationKeepsAnswer ==
    (rag.sanity.pc = "done" /\ rag.sanity.initial = "result" /\ ~rag.sanity.verified) =>
        rag.sanity.out = "result"

\* C29: a query() call that fails in retrieval, prompt composition or
\* generation ends, after its retries, by raising RAGException to its caller
\* and no exception of another type
C29_FailureIsRAGException ==
    (/\ rag.call.pc = "done"
     /\ ValidQueryInput(rag.call.query, rag.call.config)
     /\ rag.call.out \notin {"result", "generator"}) =>
        rag.call.out = "RAGException"
\* the chunks whose text is part of a retrieved_docs text
ChunksIn(text) == {text[j] : j \in 1..Len(text)} \ {Newline}

\* C24: the sources of a retrieval hold each filename at most once, also when
\* several retrieved chunks come from the same file
C24_SourcesDistinct ==
    (last.op = "retrieve_context" /\ last.ok) =>
        \A i, j \in 1..Len(last.out.sources) :
            last.out.sources[i].filename = last.out.sources[j].filename => i = j

\* C25: with a score threshold in the configuration, no chunk whose score is
\* below the threshold contributes to the documents text or to the sources
\* of the retrieval
C25_ThresholdApplied ==
    (last.op = "retrieve_context" /\ last.ok /\ last.min_score_threshold # NoNumber) =>
        /\ \A c \in ChunksIn(last.out.retrieved_docs) :
               Score(last.query, c) >= last.min_score_threshold
        /\ Len(last.out.sources)
             = Len(SelectSeq(last.documents,
                             LAMBDA c : Score(last.query, c) >= last.min_score_threshold))
\* C26: the count a batch ingestion returns is the number of files that were
\* ingested or re-ingested in that run; files skipped as unchanged,
\* unsupported files and files whose ingestion failed are not counted
C26_CountIsIngested ==
    rag.batch.pc = "done" => rag.batch.out = Cardinality(rag.batch.ingested)

\* a file whose call raised does not end the batch: while files are left
\* the batch runs on, and a batch that ends returns a count
BatchSurvivesFailure ==
    /\ rag.batch.pc = "done" => rag.batch.out >= 0
    /\ (rag.batch.raised # {} /\ rag.batch.todo # {}) => rag.batch.pc = "run"

\* C27: in a sequential or fanned-out batch the failure of one file keeps no
\* other file from being ingested, and the batch completes with a count
C27_BatchCompletesDespiteFailure ==
    (rag.batch.pc = "run" /\ rag.batch.raised # {}) ~> (rag.batch.pc = "done")

\* C30: a file hash that cannot be computed ends ingest_document with an
\* error: no call goes on with an empty hash and no record carries one
C30_HashFailureSurfaces ==
    /\ \A t \in Threads :
           call[t].pc \in {"add", "persist", "lock", "save_metadata"} =>
               call[t].file_hash # EmptyHash
    /\ \A f \in Paths :
           ingested_files[f] # NoDoc => ingested_files[f].file_hash # EmptyHash
\* C28: is_ready answers a boolean in every case (it never raises), and it
\* answers TRUE only for an initialized index whose count succeeds and is at
\* least one; an uninitialized index, an empty one and a failing count give
\* FALSE
C28_ReadyOnlyWithEntries ==
    last.op = "is_ready" =>
        /\ last.ret \in BOOLEAN
        /\ last.ret => (last.initialized /\ ~last.fails /\ last.entries >= 1)
        /\ (~last.initialized \/ last.fails \/ last.entries = 0) => last.ret = FALSE

\* is_ready answered TRUE for a collection that holds entries
C28_Witness ==
    /\ last.op = "is_ready"
    /\ last.ret = TRUE
    /\ Len(vectorstore) >= 1

\* is_ready answered FALSE because the count raised
C28_WitnessFailingCount ==
    /\ last.op = "is_ready"
    /\ last.initialized /\ last.fails
    /\ Len(vectorstore) >= 1
    /\ last.ret = FALSE
\* C31: a session refresh triggered by one call never closes or replaces the
\* session while the request of another call is in flight on it
C31_SessionStableInFlight ==
    \A t \in Threads :
        session.req[t].pc = "inflight" =>
            /\ session.req[t].using \notin session.closed
            /\ session.req[t].using = session.cur
\* C32: loading a configuration whose CHUNK_OVERLAP is at least its
\* CHUNK_SIZE fails, so no Settings object with such a pair is constructed
C32_OverlapBelowChunkSize ==
    (last.op = "load_settings" /\ last.CHUNK_OVERLAP >= last.CHUNK_SIZE) =>
        last.ret = "ValidationError"

\* a load rejected by the validator alone: both values are within their
\* ranges and the overlap equals the chunk size
C32_Witness ==
    /\ last.op = "load_settings"
    /\ last.CHUNK_SIZE = last.CHUNK_OVERLAP
    /\ CHUNK_SIZE_GE <= last.CHUNK_SIZE /\ last.CHUNK_SIZE <= CHUNK_SIZE_LE
    /\ CHUNK_OVERLAP_GE <= last.CHUNK_OVERLAP /\ last.CHUNK_OVERLAP <= CHUNK_OVERLAP_LE
    /\ last.ret = "ValidationError"
\* C33: no ingest, ingest_all, search, query, status or clear_cache step
\* removes a DocumentRecord: a filename that has a record keeps one
C33_RecordsNeverRemoved ==
    [][\A f \in Paths : HasRecord(f) => ingested_files'[f] # NoDoc]_vars

\* a file with a record is handed to ingest_document again, by force, after
\* the caches were cleared
C33_Witness ==
    /\ HasRecord("a.txt")
    /\ call[2].pc = "load" /\ call[2].f = "a.txt" /\ call[2].force
    /\ cleared # {}
\* C34: a search answered from the cache is answered from an entry no older
\* than settings.CACHE_TTL; an older entry makes the search query the index
\* again
C34_ExpiredEntryNotServed ==
    (last.op = "search" /\ last.hit) => last.age <= CACHE_TTL
\* C35: is_available() answers true only for a successful capability answer
\* that lists the configured model, and a generate request is sent only in
\* an attempt whose own availability probe answered true
C35_PostOnlyAfterAvailable ==
    /\ (last.op = "probe" /\ last.available) => last.answer = "listed"
    /\ gen.pc = "post" =>
            /\ last.op = "probe" /\ last.attempt = gen.attempt
            /\ last.answer = "listed"
    /\ last.op = "post" =>
            /\ last.probed.op = "probe" /\ last.probed.attempt = last.attempt
            /\ last.probed.answer = "listed"

\* a generate request went out in a later attempt, after an earlier attempt
\* was refused by its probe
C35_Witness ==
    /\ last.op = "post" /\ last.attempt > 1
    /\ gen.probes > Len(gen.posts)
\* C36: an ingest call that has stored its record saves the metadata and
\* returns: no thread waits in _save_metadata for the metadata lock while
\* holding that lock itself
C36_NeverWaitsForOwnLock ==
    \A t \in Threads : call[t].pc = "save_metadata" => metadata_lock # t

\* number of index entries whose source is file f
SourceCount(f) ==
    Cardinality({i \in 1..Len(vectorstore) : vectorstore[i].source = f})

\* some ingest call for file f other than thread t's is between change
\* detection and record update
OtherInSection(t, f) ==
    \E u \in Threads : u # t /\ InSection(u) /\ call[u].f = f

\* C37: while no ingest call for f is under way the index holds exactly
\* record(f).chunk_count entries with source f, and a call about to store
\* the record of f left exactly the chunks of the version it read in the
\* index, none stale and none twice
C37_ChunkCountMatchesIndex ==
    \A f \in Paths :
        /\ (HasRecord(f) /\ ~OtherInSection(0, f)) =>
               SourceCount(f) = ingested_files[f].chunk_count
        /\ \A t \in Threads :
               (call[t].pc = "lock" /\ call[t].f = f /\ ~OtherInSection(t, f)) =>
                   SourceCount(f) = ChunkCount(call[t].snap.ver)

\* C38: an ingest call that raises, at the add or at the persist step as at
\* the loader, has left nothing of its own in the index or the records
C38_RaiseLeavesNothing ==
    (/\ last.op \in {"ingest_load", "ingest_add", "ingest_persist"}
     /\ last.ret = "DocumentProcessingError") => ~last.touched
\* C39: a restart never loses all records: when the service is constructed
\* again after an ingest call stored a record and went on to save it, the
\* metadata file or its backup gives the restarted service some record
C39_RestartKeepsRecords ==
    (last.op = "restart" /\ last.saving # {}) =>
        /\ disk.file.state = "ok" \/ disk.backup.state = "ok"
        /\ \E f \in Paths : HasRecord(f)
\* C40: a streaming query() runs and returns without the generation client
\* being called; the client is called inside the consumer's first next(),
\* and a failure of that call comes out of next() as LLMException while the
\* query is over: query() neither runs another attempt nor turns the failure
\* into its own RAGException or RetryError
C40_StreamingGenerationIsLazy ==
    /\ (rag.call.pc # "idle" /\ rag.call.config.stream) =>
           (gen.pc = "idle" /\ rag.call.generations = 0)
    /\ (gen.pc # "idle" /\ gen.stream) =>
           (rag.call.pc = "idle" /\ resp.pc = "created" /\ resp.via = "wrapper")
    /\ (last.op = "first_next" /\ last.raised # None /\ resp.pc = "failed") =>
           /\ last.raised = "LLMException"
           /\ rag.call.pc = "idle" /\ rag.call.attempt = 0

\* the consumer's first next() raised after the backend refused the generate
\* request in every attempt of generate_response
C40_Witness ==
    /\ last.op = "first_next" /\ last.raised = "LLMException"
    /\ last.posts = MAX_RETRIES
    /\ resp.pc = "failed" /\ resp.via = "wrapper"
====
